---- MODULE Spec2Model ----
(***************************************************************************)
(* Build library management and launch supervision of the launcher's       *)
(* Onboard component (src/src/onboard.tsx) together with the login page    *)
(* that stores the session (src/src/login.tsx).                            *)
(*                                                                         *)
(* React state is modelled by the variables builds, path, user, EOR,       *)
(* isLaunching and error; localStorage by ls.  An event handler runs to    *)
(* its first await as one step, together with the render it causes and     *)
(* the effects of that render; every continuation after an await is a      *)
(* further step.  A handler sees the state of the render it was created    *)
(* in (its closure), which the pending invocations carry with them.        *)
(***************************************************************************)
EXTENDS Integers, Sequences, FiniteSets, TLC

(* ------------------------------ bounds -------------------------------- *)
\* addBuild invocations in one behaviour that create an entry or still can
MaxAdds == 2
\* removeBuild calls in one behaviour
MaxRemoves == 1
\* error-clearing timers pending at one time when an add surfaces an error
MaxErrTimers == 1
\* error-clearing timers pending at one time when a launch surfaces an error
MaxLaunchErrTimers == 2
\* firstlaunch commands awaiting the host's answer at one time
MaxCmds == 2
\* firstlaunch commands issued in one launch cycle
MaxCycleCmds == 2
\* liveness queries awaiting an answer at one time
MaxInflight == 2
\* liveness queries of one launch cycle that are counted and whose answers
\* are logged; the loop itself goes on
MaxQueries == 3

(* ------------------------ program constants --------------------------- *)
\* onboard.tsx:228  if (builds.length >= 16)
Cap == 16

(* ------------------------------ values -------------------------------- *)
\* an absent value (null / undefined / a missing localStorage key) is the
\* empty tuple, a present value v is <<v>>; a string of characters that is
\* empty is falsy in the code exactly as null is
None == <<>>
Some(v) == <<v>>

\* candidate directories, as sequences of characters
PathFoo == <<"/", "g", "/", "F">>
PathBar == <<"C", "\\", "B", "\\">>
PathBad == <<"/", "x">>
Paths == {PathFoo, PathBad}
\* the directories of the file system that contain an Engine folder
EngineDirs == {PathFoo, PathBar}

CoverUrl == "data:image/bmp;base64,Qk0="

Creds == [email |-> "a@b.cd", password |-> "secret"]

MsgNoBuild == "Please first select a game folder or build in the library."
MsgNoLogin == "No login details found."
MsgLaunchFailed == "Fehler beim Start: "
MsgInvalid == "Invalid build: The folder must contain an 'Engine' folder."
MsgFull == "Maximum builds in library reached (16). Remove one first."
MsgAddFailed == "Could not add build: "

(* ------------------------------ helpers ------------------------------- *)
IsSep(c) == c \in {"/", "\\"}

\* p.split(/\\|\//)
RECURSIVE Split(_)
Split(p) ==
    IF \E i \in 1..Len(p) : IsSep(p[i])
    THEN LET i == CHOOSE k \in 1..Len(p) :
                      IsSep(p[k]) /\ \A j \in 1..(k - 1) : ~IsSep(p[j])
         IN  <<SubSeq(p, 1, i - 1)>> \o Split(SubSeq(p, i + 1, Len(p)))
    ELSE <<p>>

NonEmpty(s) == s /= <<>>

\* (variant: the first segment is taken instead of the last)
getFolderName_First(p) ==
    LET parts == SelectSeq(Split(p), NonEmpty)
    IN  IF Len(parts) > 0 THEN parts[1] ELSE p

getFolderName(p) ==
    LET parts == SelectSeq(Split(p), NonEmpty)
    IN  IF Len(parts) > 0 THEN parts[Len(parts)] ELSE p

\* JSON.stringify drops a key whose value is undefined
StringifyItem(b) ==
    IF b.coverDataUrl = None
    THEN [id |-> b.id, path |-> b.path, name |-> b.name]
    ELSE [id |-> b.id, path |-> b.path, name |-> b.name,
          coverDataUrl |-> b.coverDataUrl[1]]

ParseItem(j) ==
    [id |-> j.id, path |-> j.path, name |-> j.name,
     coverDataUrl |-> IF "coverDataUrl" \in DOMAIN j
                      THEN Some(j.coverDataUrl) ELSE None]

Stringify(bs) == [i \in 1..Len(bs) |-> StringifyItem(bs[i])]
Parse(js) == [i \in 1..Len(js) |-> ParseItem(js[i])]

\* login.tsx: JSON.stringify({ ...form, username: form.email })
StringifyUser(form) ==
    [email |-> form.email, password |-> form.password, username |-> form.email]

NewItem(n, selected, cover) ==
    [id |-> n, path |-> selected, name |-> getFolderName(selected),
     coverDataUrl |-> cover]

\* prev.filter((b) => b.id !== id)
FilterOut(bs, id) == SelectSeq(bs, LAMBDA b : b.id /= id)

(* --------------------------- stored state ----------------------------- *)
\* the list a previous run left behind after n successful adds
SeedPath(n) == IF n % 2 = 0 THEN PathFoo ELSE PathBar
Seed(n) == [i \in 1..n |-> NewItem(n - i + 1, SeedPath(n - i + 1), None)]
SeedSizes == {Cap - 1}

\* the displayed entries whose Remove button is pressed: the head of the
\* list, which startup and add select, and the one after it
RemovePositions == {1, 2}

EmptyStore == [buildPath |-> None, user |-> None, EOR |-> None, builds |-> None]

(* ------------------------------ state --------------------------------- *)
VARIABLES
    page,         \* "closed", "login" or "onboard" (Onboard mounted)
    builds,       \* useState<BuildItem[]>
    path,         \* useState<string | null>
    user,         \* useState<{email, password} | null>
    EOR,          \* useState(false)
    isLaunching,  \* useState(false)
    error,        \* useState<string | null>, "" when null
    ls,           \* localStorage
    adds,         \* addBuild invocations suspended at an await
    created,      \* number of entries created so far (feeds the fresh ids)
    removes,      \* number of removeBuild calls so far
    cmds,         \* invoke("firstlaunch") calls awaiting the host's answer
    timers,       \* active setInterval timers of the polling effect, each
                  \* with the value of its closure's cancelled flag
    queries,      \* invoke("is_fortnite_client_running") calls awaiting an
                  \* answer, each with its closure's cancelled flag
    errTimers,    \* pending setTimeout(() => setError(null), 5000)
    cycleCmds,    \* firstlaunch commands issued since isLaunching last became true
    cycleQueries, \* liveness queries issued since isLaunching last became true
    cycleLog,     \* the answers run() acted on since then, each with the
                  \* isLaunching it left
    overlap,      \* whether since then a timer fired while a query of the
                  \* same loop was awaiting its answer
    ev            \* the handler or continuation that ran last, and its outcome

vars == <<page, builds, path, user, EOR, isLaunching, error, ls, adds, created,
          cmds, timers, queries, errTimers, cycleCmds, cycleQueries, cycleLog, overlap, removes, ev>>

Event(op, res) == [op |-> op, res |-> res]

(* ---------------------- effects of a render --------------------------- *)
\* useEffect(() => localStorage.setItem("PabloMP.builds", ...), [builds])
PersistBuilds(store, bs) == [store EXCEPT !.builds = Some(Stringify(bs))]

\* useEffect(() => path ? setItem("buildPath", path) : removeItem, [path])
PersistPath(store, p) ==
    [store EXCEPT !.buildPath = IF p /= <<>> THEN Some(p) ELSE None]

\* the persistence effects that run after a render: the builds effect when
\* setBuilds was given a new array, the path effect when path changed
AfterEffects(store, buildsSet, nb, op, np) ==
    LET s1 == IF buildsSet THEN PersistBuilds(store, nb) ELSE store
    IN  IF np /= op THEN PersistPath(s1, np) ELSE s1

\* (variant: the cleanup sets cancelled but leaves the interval running)
CleanupTimers_Leaks(ts) == [i \in 1..Len(ts) |-> TRUE]

\* cleanup of the polling effect: cancelled = true; clearInterval(t)
CleanupTimers(ts) == SelectSeq(ts, LAMBDA c : c)
\* (variant: the cleanup stops the interval but leaves cancelled unset)
CleanupQueries_Forgets(qs) == qs

CleanupQueries(qs) == [i \in 1..Len(qs) |-> TRUE]

\* (variant: the effect calls run() once and arms no interval)
PollTimers_NoInterval(old, new, ts) ==
    IF old = new THEN ts ELSE CleanupTimers(ts)

\* the polling effect after a render in which isLaunching went from old to
\* new: cleanup of the previous effect, then run() and setInterval(run, 3000)
PollTimers(old, new, ts) ==
    IF old = new THEN ts
    ELSE IF new THEN Append(CleanupTimers(ts), FALSE) ELSE CleanupTimers(ts)

PollQueries_NoFirstRun(old, new, qs) ==
    IF old = new THEN qs ELSE CleanupQueries(qs)

PollQueries(old, new, qs) ==
    IF old = new THEN qs
    ELSE IF new THEN Append(CleanupQueries(qs), FALSE) ELSE CleanupQueries(qs)

(* --------------------------- life cycle ------------------------------- *)
\* the load effect: what it reads from localStorage and sets
LoadedBuilds(store) == IF store.builds /= None THEN Parse(store.builds[1]) ELSE <<>>

LoadedPath(store) ==
    IF store.buildPath /= None /\ store.buildPath[1] /= <<>>
    THEN store.buildPath[1]
    ELSE IF store.builds /= None /\ Len(store.builds[1]) > 0
         THEN Parse(store.builds[1])[1].path
         ELSE <<>>

LoadedUser(store) ==
    IF store.user /= None THEN Some(store.user[1]) ELSE None

LoadedEOR(store) == IF store.EOR /= None THEN store.EOR[1] = "true" ELSE FALSE

\* (variant: the effects of the first render are the last to write)
MountStore_Erases(store) == PersistPath(PersistBuilds(store, <<>>), <<>>)

\* localStorage once the first render's effects (on the initial state, [] and
\* null) and the effects of the render with the loaded state have run
MountStore(store) ==
    LET first == PersistPath(PersistBuilds(store, <<>>), <<>>)
    IN  AfterEffects(first, store.builds /= None, LoadedBuilds(store),
                     <<>>, LoadedPath(store))

\* Onboard mounts on the given store
Mount(store) ==
    /\ page' = "onboard"
    /\ builds' = LoadedBuilds(store)
    /\ path' = LoadedPath(store)
    /\ user' = LoadedUser(store)
    /\ EOR' = LoadedEOR(store)
    /\ isLaunching' = FALSE
    /\ error' = ""
    /\ ls' = MountStore(store)

\* the application starts on the Onboard route
Open ==
    /\ page = "closed"
    /\ Mount(ls)
    /\ ev' = [op |-> "open", res |-> "ok", stored |-> ls]
    /\ UNCHANGED <<adds, created, removes, cmds, timers, queries, errTimers,
                   cycleCmds, cycleQueries, cycleLog, overlap>>

\* login.tsx handleSubmit with a well-formed form
Login ==
    /\ page = "login"
    /\ Mount([ls EXCEPT !.user = Some(StringifyUser(Creds))])
    /\ ev' = Event("login", "ok")
    /\ UNCHANGED <<adds, created, removes, cmds, timers, queries, errTimers,
                   cycleCmds, cycleQueries, cycleLog, overlap>>

Detach(as) == [i \in 1..Len(as) |-> [as[i] EXCEPT !.alive = FALSE]]

\* the component state is gone once Onboard is unmounted
Unmounted ==
    /\ builds' = <<>>
    /\ path' = <<>>
    /\ user' = None
    /\ EOR' = FALSE
    /\ isLaunching' = FALSE
    /\ error' = ""
    /\ errTimers' = 0
    /\ cycleCmds' = 0
    /\ cycleQueries' = 0
    /\ cycleLog' = <<>>
    /\ overlap' = FALSE

\* handleLogout; rerendered says whether Onboard rendered the cleared state
\* (and ran its persistence effects) before the navigation unmounted it
handleLogout(rerendered) ==
    /\ page = "onboard"
    /\ page' = "login"
    /\ ls' = IF rerendered
             THEN AfterEffects(EmptyStore, TRUE, <<>>, path, <<>>)
             ELSE EmptyStore
    /\ Unmounted
    /\ adds' = Detach(adds)
    /\ cmds' = Detach(cmds)
    /\ timers' = CleanupTimers(timers)
    /\ queries' = CleanupQueries(queries)
    /\ ev' = Event("logout", "ok")
    /\ UNCHANGED <<created, removes>>

\* the process ends: nothing in flight survives, localStorage does
Close ==
    /\ page /= "closed"
    /\ page' = "closed"
    /\ Unmounted
    /\ adds' = <<>>
    /\ cmds' = <<>>
    /\ timers' = <<>>
    /\ queries' = <<>>
    /\ ev' = Event("close", "ok")
    /\ UNCHANGED <<ls, created, removes>>

(* ----------------------------- errors --------------------------------- *)
\* setError(msg); setTimeout(() => setError(null), 5000) in a handler of a
\* component that is still mounted (alive); on an unmounted one setError is
\* ignored and the timer's callback will be
Surface(alive, msg) ==
    /\ error' = IF alive THEN msg ELSE error
    /\ errTimers' = IF alive THEN errTimers + 1 ELSE errTimers

\* a timer armed by one of the handlers fires: setError(null)
ClearError ==
    /\ page = "onboard"
    /\ errTimers > 0
    /\ errTimers' = errTimers - 1
    /\ error' = ""
    /\ ev' = Event("clearError", "ok")
    /\ UNCHANGED <<cycleCmds, cycleQueries, cycleLog, overlap, removes>>
    /\ UNCHANGED <<page, builds, path, user, EOR, isLaunching, ls, adds,
                   created, cmds, timers, queries>>

(* ---------------------------- registry -------------------------------- *)
Without(seq, i) == SubSeq(seq, 1, i - 1) \o SubSeq(seq, i + 1, Len(seq))

\* addBuild up to await open(): the invocation keeps the builds of the
\* render its closure belongs to
addBuildClick ==
    /\ page = "onboard"
    /\ Len(adds) + created < MaxAdds
    /\ adds' = Append(adds, [closure |-> builds, alive |-> TRUE,
                             stage |-> "dialog", selected |-> <<>>])
    /\ ev' = Event("addBuild", "dialog")
    /\ UNCHANGED <<cycleCmds, cycleQueries, cycleLog, overlap, removes>>
    /\ UNCHANGED <<page, builds, path, user, EOR, isLaunching, error, ls,
                   created, cmds, timers, queries, errTimers>>

\* (variant: the capacity test lets a seventeenth entry in)
AddVerdict_OffByOne(selected, closure) ==
    IF selected = <<>> THEN "cancelled"
    ELSE IF selected \notin EngineDirs THEN "invalid"
    ELSE IF Len(closure) > Cap THEN "full"
    ELSE "valid"

\* (variant: the Engine test does not return)
AddVerdict_NoEngineCheck(selected, closure) ==
    IF selected = <<>> THEN "cancelled"
    ELSE IF Len(closure) >= Cap THEN "full"
    ELSE "valid"

\* what addBuild decides once the dialog has returned selected and
\* exists(join(selected, "Engine")) has answered
AddVerdict(selected, closure) ==
    IF selected = <<>> THEN "cancelled"
    ELSE IF selected \notin EngineDirs THEN "invalid"
    ELSE IF Len(closure) >= Cap THEN "full"
    ELSE "valid"

\* whether addBuild has called exists(join(selected, "Engine")) by the time
\* it decides: the call precedes the test of builds.length
EngineProbed(selected, closure) == selected /= <<>>

\* addBuild from the dialog's answer to await join(selected, "FortniteGame", ...)
addBuildValidate(i, selected) ==
    /\ page /= "closed"
    /\ i \in 1..Len(adds)
    /\ adds[i].stage = "dialog"
    /\ LET a == adds[i]
           v == AddVerdict(selected, a.closure)
       IN  /\ (v \in {"invalid", "full"} /\ a.alive) => errTimers < MaxErrTimers
           /\ adds' = IF v = "valid"
                      THEN [adds EXCEPT ![i].stage = "cover",
                                        ![i].selected = selected]
                      ELSE Without(adds, i)
           /\ CASE v = "invalid" -> Surface(a.alive, MsgInvalid)
                [] v = "full" -> Surface(a.alive, MsgFull)
                [] OTHER -> UNCHANGED <<error, errTimers>>
           /\ ev' = [op |-> "addBuild", res |-> v, selected |-> selected,
                     full |-> Len(a.closure) >= Cap,
                     probed |-> EngineProbed(selected, a.closure)]
    /\ UNCHANGED <<cycleCmds, cycleQueries, cycleLog, overlap, removes>>
    /\ UNCHANGED <<page, builds, path, user, EOR, isLaunching, ls, created,
                   cmds, timers, queries>>

\* what probing and reading Splash.bmp comes to: no such file, the file
\* read, or an exception thrown by exists(splashPath) or readBinaryFile
CoverOutcomes == {"absent", "read", "failed"}
CoverThrows(outcome) == outcome = "failed"
CoverOf(outcome) == IF outcome = "read" THEN Some(CoverUrl) ELSE None

\* addBuild from exists(splashPath) to its end
addBuildFinish(i, outcome) ==
    /\ page /= "closed"
    /\ i \in 1..Len(adds)
    /\ adds[i].stage = "cover"
    /\ adds' = Without(adds, i)
    /\ LET a == adds[i]
           item == NewItem(Cap + created + 1, a.selected, CoverOf(outcome))
           updatedBuilds == <<item>> \o a.closure
       IN  IF CoverThrows(outcome)
           THEN /\ a.alive => errTimers < MaxErrTimers
                /\ Surface(a.alive, MsgAddFailed)
                /\ ev' = [op |-> "addBuild", res |-> "failed",
                          selected |-> a.selected, cover |-> outcome]
                /\ UNCHANGED <<builds, path, ls, created>>
           ELSE /\ created < MaxAdds
                /\ created' = created + 1
                /\ builds' = IF a.alive THEN updatedBuilds ELSE builds
                /\ path' = IF a.alive THEN a.selected ELSE path
                /\ ls' = IF a.alive
                         THEN AfterEffects(PersistBuilds(ls, updatedBuilds),
                                           TRUE, updatedBuilds, path, a.selected)
                         ELSE PersistBuilds(ls, updatedBuilds)
                /\ ev' = [op |-> "addBuild", res |-> "added",
                          selected |-> a.selected, cover |-> outcome]
                /\ UNCHANGED <<error, errTimers>>
    /\ UNCHANGED <<cycleCmds, cycleQueries, cycleLog, overlap, removes>>
    /\ UNCHANGED <<page, user, EOR, isLaunching, cmds, timers, queries>>

\* the entry removeBuild finds, or None
Find(bs, id) ==
    IF \E i \in 1..Len(bs) : bs[i].id = id
    THEN Some(bs[CHOOSE i \in 1..Len(bs) :
                    bs[i].id = id /\ \A j \in 1..(i - 1) : bs[j].id /= id])
    ELSE None

\* (variant: removeBuild never touches path)
PathAfterRemove_Keeps(prev, id, p) == p

\* the path removeBuild leaves selected
PathAfterRemove(prev, id, p) ==
    LET next == FilterOut(prev, id)
        removed == Find(prev, id)
    IN  IF removed /= None /\ removed[1].path = p
        THEN IF Len(next) > 0 THEN next[1].path ELSE <<>>
        ELSE p

removeBuild(id) ==
    /\ page = "onboard"
    /\ removes < MaxRemoves
    /\ removes' = removes + 1
    /\ LET next == FilterOut(builds, id)
           np == PathAfterRemove(builds, id, path)
       IN  /\ builds' = next
           /\ path' = np
           /\ ls' = AfterEffects(PersistBuilds(ls, next), TRUE, next, path, np)
    /\ ev' = [op |-> "removeBuild", res |-> "ok", id |-> id,
              wasSelected |-> (Find(builds, id) /= None
                               /\ Find(builds, id)[1].path = path)]
    /\ UNCHANGED <<cycleCmds, cycleQueries, cycleLog, overlap>>
    /\ UNCHANGED <<page, user, EOR, isLaunching, error, adds, created, cmds,
                   timers, queries, errTimers>>

\* the Select button of a library entry: setPath(b.path)
selectBuild(p) ==
    /\ page = "onboard"
    /\ \E i \in 1..Len(builds) : builds[i].path = p
    /\ path' = p
    /\ ls' = AfterEffects(ls, FALSE, builds, path, p)
    /\ ev' = Event("select", "ok")
    /\ UNCHANGED <<cycleCmds, cycleQueries, cycleLog, overlap, removes>>
    /\ UNCHANGED <<page, builds, user, EOR, isLaunching, error, adds, created,
                   cmds, timers, queries, errTimers>>

handleToggleEOR ==
    /\ page = "onboard"
    /\ EOR' = ~EOR
    /\ ls' = [ls EXCEPT !.EOR = Some(IF ~EOR THEN "true" ELSE "false")]
    /\ ev' = Event("toggleEOR", "ok")
    /\ UNCHANGED <<cycleCmds, cycleQueries, cycleLog, overlap, removes>>
    /\ UNCHANGED <<page, builds, path, user, isLaunching, error, adds, created,
                   cmds, timers, queries, errTimers>>

(* ----------------------------- launch ---------------------------------- *)
\* (variant: the early returns leave isLaunching set)
LaunchSync_NoRevert(p, bs, u, e) ==
    LET launchPath == IF p /= <<>> THEN p
                      ELSE IF Len(bs) > 0 THEN bs[1].path ELSE <<>>
    IN  IF launchPath = <<>>
        THEN [sets |-> <<TRUE>>, error |-> MsgNoBuild, cmd |-> None]
        ELSE IF u = None
        THEN [sets |-> <<TRUE>>, error |-> MsgNoLogin, cmd |-> None]
        ELSE [sets |-> <<TRUE>>, error |-> "",
              cmd |-> Some([alive |-> TRUE, path |-> launchPath,
                            email |-> u[1].email, password |-> u[1].password,
                            eor |-> e])]

\* handleLaunch up to await invoke("firstlaunch", ...), on the state p, bs,
\* u, e of its closure: the setIsLaunching calls it makes in order, the
\* error it surfaces ("" for none) and the command it issues
LaunchSync(p, bs, u, e) ==
    LET launchPath == IF p /= <<>> THEN p
                      ELSE IF Len(bs) > 0 THEN bs[1].path ELSE <<>>
    IN  IF launchPath = <<>>
        THEN [sets |-> <<TRUE, FALSE>>, error |-> MsgNoBuild, cmd |-> None]
        ELSE IF u = None
        THEN [sets |-> <<TRUE, FALSE>>, error |-> MsgNoLogin, cmd |-> None]
        ELSE [sets |-> <<TRUE>>, error |-> "",
              cmd |-> Some([alive |-> TRUE, path |-> launchPath,
                            email |-> u[1].email, password |-> u[1].password,
                            eor |-> e])]

\* the value a batch of setIsLaunching calls leaves: the last one's
Settled(sets) == sets[Len(sets)]

\* handleLaunch called from a click handler that first did setPath(np)
\* (np = path when the handler did not): the calls are batched into one
\* render, whose effects follow
handleLaunch(np) ==
    LET r == LaunchSync(path, builds, user, EOR)
        launching == Settled(r.sets)
    IN  /\ Len(cmds) < MaxCmds
        /\ Len(queries) < MaxInflight
        /\ r.error /= "" => errTimers < MaxLaunchErrTimers
        /\ isLaunching' = launching
        /\ path' = np
        /\ ls' = AfterEffects(ls, FALSE, builds, path, np)
        /\ cmds' = IF r.cmd /= None THEN Append(cmds, r.cmd[1]) ELSE cmds
        /\ IF r.error /= "" THEN Surface(TRUE, r.error)
                            ELSE UNCHANGED <<error, errTimers>>
        /\ timers' = PollTimers(isLaunching, launching, timers)
        /\ queries' = PollQueries(isLaunching, launching, queries)
        /\ cycleCmds' = IF r.cmd = None THEN cycleCmds
                        ELSE IF isLaunching THEN cycleCmds + 1 ELSE 1
        /\ cycleQueries' = IF launching /\ ~isLaunching
                           THEN Len(PollQueries(FALSE, TRUE, <<>>))
                           ELSE cycleQueries
        /\ cycleLog' = IF launching /\ ~isLaunching THEN <<>> ELSE cycleLog
        /\ overlap' = IF launching /\ ~isLaunching THEN FALSE ELSE overlap
        /\ ev' = Event("handleLaunch",
                       IF r.error = MsgNoBuild THEN "NoBuildSelected"
                       ELSE IF r.error = MsgNoLogin THEN "NotAuthenticated"
                       ELSE "issued")
        /\ UNCHANGED <<page, builds, user, EOR, adds, created, removes>>

\* the PLAY button of the hero banner,
\* disabled={isLaunching || !current || !user}
HeroPlay ==
    /\ page = "onboard"
    /\ ~isLaunching
    /\ Len(builds) > 0
    /\ user /= None
    /\ handleLaunch(path)

\* the Play button of a library or featured entry:
\* () => { setPath(b.path); handleLaunch(); }
EntryPlay(p) ==
    /\ page = "onboard"
    /\ \E i \in 1..Len(builds) : builds[i].path = p
    /\ cycleCmds < MaxCycleCmds
    /\ handleLaunch(p)

\* the host answers a firstlaunch command; a rejection throws into the catch
LaunchAnswer(i, accepted) ==
    /\ page /= "closed"
    /\ i \in 1..Len(cmds)
    /\ cmds' = Without(cmds, i)
    /\ IF ~accepted /\ cmds[i].alive
       THEN /\ errTimers < MaxLaunchErrTimers
            /\ Surface(TRUE, MsgLaunchFailed)
            /\ isLaunching' = FALSE
            /\ timers' = PollTimers(isLaunching, FALSE, timers)
            /\ queries' = PollQueries(isLaunching, FALSE, queries)
       ELSE UNCHANGED <<error, errTimers, isLaunching, timers, queries>>
    /\ ev' = [op |-> "firstlaunch",
              res |-> IF accepted THEN "accepted" ELSE "rejected",
              alive |-> cmds[i].alive]
    /\ UNCHANGED <<page, builds, path, user, EOR, ls, adds, created, removes,
                   cycleCmds, cycleQueries, cycleLog, overlap>>

\* an interval timer fires: run() issues a liveness query
Tick(i) ==
    /\ page = "onboard"
    /\ i \in 1..Len(timers)
    /\ Len(queries) < MaxInflight
    /\ queries' = Append(queries, timers[i])
    /\ cycleQueries' = IF cycleQueries < MaxQueries THEN cycleQueries + 1
                       ELSE cycleQueries
    /\ overlap' = (overlap \/ \E k \in 1..Len(queries) : queries[k] = timers[i])
    /\ ev' = Event("tick", "query")
    /\ UNCHANGED <<page, builds, path, user, EOR, isLaunching, error, ls, adds,
                   created, removes, cmds, timers, errTimers, cycleCmds, cycleLog>>

\* (variant: the catch of run() swallows the exception)
EndsLaunch_IgnoresFailure(cancelled, r) == ~cancelled /\ r = "stopped"

\* whether run() calls setIsLaunching(false) on the answer r of a query
\* whose closure has the given cancelled flag
EndsLaunch(cancelled, r) == ~cancelled /\ r /= "running"

\* the host answers a liveness query: true, false, or an exception
Answers == {"running", "stopped", "failed"}
QueryAnswer(i, r) ==
    /\ page /= "closed"
    /\ i \in 1..Len(queries)
    /\ LET rest == Without(queries, i)
           launching == IF EndsLaunch(queries[i], r) THEN FALSE ELSE isLaunching
       IN  /\ isLaunching' = launching
           /\ timers' = PollTimers(isLaunching, launching, timers)
           /\ queries' = PollQueries(isLaunching, launching, rest)
           /\ cycleLog' = IF queries[i] \/ Len(cycleLog) >= MaxQueries
                          THEN cycleLog
                          ELSE Append(cycleLog, <<r, launching>>)
    /\ ev' = [op |-> "liveness", res |-> r, cancelled |-> queries[i]]
    /\ UNCHANGED <<page, builds, path, user, EOR, error, ls, adds, created,
                   removes, cmds, errTimers, cycleCmds, cycleQueries, overlap>>

(* ------------------------- specification ------------------------------ *)
\* localStorage as an earlier run of the launcher left it after n adds
\* by a logged-in user (loggedIn) or by one who never logged in
StoreAfter(n, loggedIn) ==
    [buildPath |-> IF n > 0 THEN Some(Seed(n)[1].path) ELSE None,
     user |-> IF loggedIn THEN Some(StringifyUser(Creds)) ELSE None,
     EOR |-> None,
     builds |-> Some(Stringify(Seed(n)))]

RegistryStores == {EmptyStore} \cup {StoreAfter(n, TRUE) : n \in SeedSizes}
LaunchStores == {StoreAfter(2, TRUE), StoreAfter(2, FALSE)}

InitOn(stores) ==
    /\ page = "closed"
    /\ builds = <<>>
    /\ path = <<>>
    /\ user = None
    /\ EOR = FALSE
    /\ isLaunching = FALSE
    /\ error = ""
    /\ ls \in stores
    /\ adds = <<>>
    /\ created = 0
    /\ removes = 0
    /\ cmds = <<>>
    /\ timers = <<>>
    /\ queries = <<>>
    /\ errTimers = 0
    /\ cycleCmds = 0
    /\ cycleQueries = 0
    /\ cycleLog = <<>>
    /\ overlap = FALSE
    /\ ev = Event("init", "ok")

InitRegistry == InitOn(RegistryStores)
InitLaunch == InitOn(LaunchStores)

\* the paths of the entries the library panel displays
Displayed == {builds[i].path : i \in 1..Len(builds)}

\* the library in one session: startup, add, remove and select
NextRegistry ==
    \/ Open
    \/ ClearError
    \/ addBuildClick
    \/ \E i \in 1..MaxAdds, p \in Paths \cup {<<>>} : addBuildValidate(i, p)
    \/ \E i \in 1..MaxAdds, o \in CoverOutcomes : addBuildFinish(i, o)
    \/ \E i \in RemovePositions : i <= Len(builds) /\ removeBuild(builds[i].id)
    \/ \E p \in Displayed : selectBuild(p)

\* the library across sessions: login, logout and restart as well
NextSession ==
    \/ Open
    \/ Login
    \/ \E rerendered \in BOOLEAN : handleLogout(rerendered)
    \/ Close
    \/ ClearError
    \/ addBuildClick
    \/ \E i \in 1..MaxAdds, p \in Paths \cup {<<>>} : addBuildValidate(i, p)
    \/ \E i \in 1..MaxAdds, o \in CoverOutcomes : addBuildFinish(i, o)
    \/ \E i \in RemovePositions : i <= Len(builds) /\ removeBuild(builds[i].id)
    \/ \E p \in Displayed : selectBuild(p)

\* the launch supervisor on a library that does not change
NextLaunch ==
    \/ Open
    \/ \E rerendered \in BOOLEAN : handleLogout(rerendered)
    \/ Close
    \/ ClearError
    \/ HeroPlay
    \/ \E p \in Displayed : EntryPlay(p)
    \/ \E i \in 1..MaxCmds, a \in BOOLEAN : LaunchAnswer(i, a)
    \/ \E i \in 1..Len(timers) : Tick(i)
    \/ \E i \in 1..MaxInflight, r \in Answers : QueryAnswer(i, r)

SpecRegistry == InitRegistry /\ [][NextRegistry]_vars
SpecSession == InitRegistry /\ [][NextSession]_vars
SpecLaunch == InitLaunch /\ [][NextLaunch]_vars

\* the polling loop of launches made with the PLAY button
NextPolling ==
    \/ Open
    \/ \E rerendered \in BOOLEAN : handleLogout(rerendered)
    \/ Close
    \/ ClearError
    \/ HeroPlay
    \/ \E i \in 1..MaxCmds, a \in BOOLEAN : LaunchAnswer(i, a)
    \/ \E i \in 1..Len(timers) : Tick(i)
    \/ \E i \in 1..MaxInflight, r \in Answers : QueryAnswer(i, r)

\* the interval timer keeps firing, the host answers every query, and it
\* does not answer running for ever to the queries of a loop that goes on
\* asking
TickFires == \E i \in 1..Len(timers) : Tick(i)
HostAnswers == \E i \in 1..MaxInflight, r \in Answers : QueryAnswer(i, r)
HostReportsStopped ==
    \E i \in 1..Len(queries) : ~queries[i] /\ QueryAnswer(i, "stopped")
SpecPolling ==
    /\ InitLaunch /\ [][NextPolling]_vars
    /\ WF_vars(TickFires)
    /\ WF_vars(HostAnswers)
    /\ SF_vars(HostReportsStopped)

(* ---------------------------- properties ------------------------------ *)
Stored == IF ls.builds /= None THEN ls.builds[1] ELSE <<>>

\* C1: in every state reachable by startup, login, logout, add (overlapping
\* adds included), remove and select, the registry, in memory and as
\* persisted, holds at most 16 entries.
C1_AtMostCap == Len(builds) <= Cap /\ Len(Stored) <= Cap

\* two adds that overlapped have both committed on a seeded library of 15
C1_Witness ==
    /\ ev.op = "addBuild" /\ ev.res = "added"
    /\ created = 2 /\ removes = 0
    /\ Len(builds) = Cap /\ Len(Stored) = Cap

\* C2 (as claimed): an add called on a registry of 16 entries is rejected
\* with Full whatever the candidate path, before the Engine check is made,
\* and leaves the list and selectedPath alone.
C2_FullBeforeValidation ==
    [][(ev'.op = "addBuild" /\ ev'.res \in {"invalid", "full", "valid"}
            /\ ev'.full)
        => (ev'.res = "full" /\ ~ev'.probed /\ error' = MsgFull
              /\ UNCHANGED <<builds, path>>)]_vars

\* C3: removing the entry whose path is selectedPath selects the first of
\* the remaining entries, or nothing when none remains; removing another
\* entry leaves selectedPath as it was.
C3_RemoveReselects ==
    [][removes' /= removes =>
        \A i \in 1..Len(builds) :
            builds[i].id = ev'.id =>
                /\ \A j \in 1..Len(builds') : builds'[j].id /= ev'.id
                /\ builds[i].path = path =>
                      path' = IF Len(builds') > 0 THEN builds'[1].path ELSE <<>>
                /\ builds[i].path /= path => path' = path]_vars

\* the selected entry was removed and the selection moved to the new head
C3_Witness ==
    /\ ev.op = "removeBuild" /\ ev.wasSelected
    /\ Len(builds) > 0
    /\ path = builds[1].path
    /\ \A i \in 1..Len(builds) : builds[i].id /= ev.id

\* C4: an add of a directory without an Engine folder is rejected with the
\* validation error and changes neither the list, nor selectedPath, nor
\* what is persisted.
C4_InvalidAddChangesNothing ==
    [][(ev'.op = "addBuild" /\ ev'.res \in {"invalid", "full", "valid"}
            /\ ev'.selected \notin EngineDirs)
        => (ev'.res = "invalid" /\ error' = MsgInvalid
              /\ Len(adds') < Len(adds)
              /\ UNCHANGED <<builds, path, ls>>)]_vars

\* a directory without Engine was rejected on a library that has entries
C4_Witness ==
    /\ ev.op = "addBuild" /\ ev.res = "invalid"
    /\ ev.selected = PathBad
    /\ error = MsgInvalid
    /\ Len(builds) > 0

\* C5 (as claimed): with Engine present and room in the registry, a failure
\* to probe or read the cover still creates the entry, without a cover.
C5_CoverFailureStillAdds ==
    (ev.op = "addBuild" /\ ev.res \in {"failed", "added"}
        /\ CoverThrows(ev.cover))
    => (ev.res = "added" /\ Len(builds) > 0
          /\ builds[1].path = ev.selected /\ builds[1].coverDataUrl = None)

\* C6: a launch with nothing to launch surfaces NoBuildSelected, one with a
\* build but no session NotAuthenticated; neither leaves Idle, issues a
\* launch command or issues a liveness query.
C6_PreconditionsKeepIdle ==
    [][/\ \A u \in {None, Some(StringifyUser(Creds))}, e \in BOOLEAN :
            LET r == LaunchSync(<<>>, <<>>, u, e)
            IN  r.error = MsgNoBuild /\ ~Settled(r.sets) /\ r.cmd = None
       /\ (ev'.op = "handleLaunch" /\ ~isLaunching
              /\ (user = None \/ (path = <<>> /\ builds = <<>>)))
          => /\ ev'.res = IF path = <<>> /\ builds = <<>>
                          THEN "NoBuildSelected" ELSE "NotAuthenticated"
             /\ error' = IF path = <<>> /\ builds = <<>>
                         THEN MsgNoBuild ELSE MsgNoLogin
             /\ ~isLaunching'
             /\ UNCHANGED <<cmds, timers, queries, cycleCmds, cycleQueries>>]_vars

\* Play on an entry without a session: the error is shown, the state is Idle
C6_Witness ==
    /\ ev.op = "handleLaunch" /\ ev.res = "NotAuthenticated"
    /\ user = None /\ Len(builds) > 0
    /\ error = MsgNoLogin
    /\ ~isLaunching /\ cmds = <<>> /\ queries = <<>> /\ timers = <<>>

\* C7 (as claimed): between becoming Launching and returning to Idle at most
\* one launch command is issued, a launch while Launching being a no-op.
C7_OneCommandPerCycle == isLaunching => cycleCmds <= 1

\* C8: at most one polling loop is active; none is while Idle or once the
\* component is unmounted, and the active one is not cancelled.
C8_OneLoop ==
    /\ Len(timers) <= 1
    /\ \A i \in 1..Len(timers) : ~timers[i]
    /\ (~isLaunching \/ page /= "onboard") => timers = <<>>

\* a second launch was made while Launching and one loop is active
C8_Witness ==
    /\ isLaunching /\ cycleCmds = 2
    /\ Len(timers) = 1

\* C9 (as claimed): no liveness query is issued while the launch command of
\* the cycle has not returned.
C9_NoQueryBeforeAccept ==
    (isLaunching /\ \E i \in 1..Len(cmds) : cmds[i].alive) => cycleQueries = 0

LogAnswers(log) == [i \in 1..Len(log) |-> log[i][1]]
LogStates(log) == [i \in 1..Len(log) |-> log[i][2]]

\* the launch cycle in which run() saw true and then false has ended
ScenarioDone == ~isLaunching /\ LogAnswers(cycleLog) = <<"running", "stopped">>

C11_FailSafeTowardIdle ==
    [][/\ \A c \in BOOLEAN : EndsLaunch(c, "failed") = EndsLaunch(c, "stopped")
       /\ (ev'.op = "liveness" /\ ev'.res \in {"failed", "stopped"})
          => IF ev'.cancelled
             THEN UNCHANGED <<isLaunching, timers>>
             ELSE /\ ~isLaunching' /\ timers' = <<>>
                  /\ \A k \in 1..Len(queries') : queries'[k]
       /\ (ev'.op = "firstlaunch" /\ ev'.res = "rejected" /\ ev'.alive)
          => /\ ~isLaunching' /\ timers' = <<>>
             /\ \A k \in 1..Len(queries') : queries'[k]
             /\ error' = MsgLaunchFailed]_vars

\* the second query of a launch cycle threw and the state went back to Idle
C11_Witness ==
    /\ ev.op = "liveness" /\ ev.res = "failed" /\ ~ev.cancelled
    /\ LogAnswers(cycleLog) = <<"running", "failed">>
    /\ ~isLaunching /\ timers = <<>>

\* C12 (as claimed): once logout has completed, the persistence effects it
\* triggers included, there is no session, the registry and selectedPath are
\* empty, and localStorage holds no credentials, no toggle, no build list
\* and no selected path.
C12_LogoutClearsEverything ==
    [][(page = "onboard" /\ page' = "login")
        => (user' = None /\ builds' = <<>> /\ path' = <<>> /\ ls' = EmptyStore)]_vars

\* n is the last non-empty segment of p: a run of characters other than
\* separators that starts p or follows a separator, with nothing but
\* separators after it
IsLastSegment(n, p) ==
    \E i \in 1..Len(p), j \in 1..Len(p) :
        /\ i <= j
        /\ n = SubSeq(p, i, j)
        /\ \A k \in i..j : ~IsSep(p[k])
        /\ i = 1 \/ IsSep(p[i - 1])
        /\ \A k \in (j + 1)..Len(p) : IsSep(p[k])

\* C13: an add that succeeds, called on a registry of fewer than 16 entries,
\* leaves the new entry at the head followed by the entries the registry
\* held when add was called, in their order; selectedPath is the added path,
\* the entry is named after the last non-empty segment of the path, the
\* persisted list is the whole new list, and an entry with the same path
\* that was there before is still there next to the new one.
C13_AddPrepends ==
    [][/\ \A p \in Paths \cup EngineDirs : IsLastSegment(getFolderName(p), p)
       /\ (ev'.op = "addBuild" /\ ev'.res = "added")
          => \E i \in 1..Len(adds) :
                LET before == adds[i].closure
                IN  /\ adds[i].stage = "cover" /\ adds' = Without(adds, i)
                    /\ Len(before) < Cap
                    /\ Len(builds') = Len(before) + 1
                    /\ \A k \in 1..Len(before) : builds'[k + 1] = before[k]
                    /\ builds'[1].path = ev'.selected
                    /\ IsLastSegment(builds'[1].name, ev'.selected)
                    /\ \A k \in 1..Len(before) : before[k].id /= builds'[1].id
                    /\ path' = ev'.selected
                    /\ Stored' = Stringify(builds')]_vars

\* a path already in the library was added again: two entries hold it
C13_Witness ==
    /\ ev.op = "addBuild" /\ ev.res = "added" /\ created = 1
    /\ Len(builds) = Cap
    /\ path = builds[1].path /\ builds[1].name = <<"F">>
    /\ \E k \in 2..Len(builds) : builds[k].path = builds[1].path
    /\ Stored = Stringify(builds)

\* C14 (as claimed): while Onboard is mounted and no handler is between two
\* of its steps, the persisted list is the list in memory, entry for entry,
\* and the persisted selection is the selection in memory, absent when that
\* is empty.
C14_StoreMirrorsMemory ==
    page = "onboard"
    => /\ ls.builds = Some(Stringify(builds))
       /\ ls.buildPath = IF path /= <<>> THEN Some(path) ELSE None

\* C15 (as claimed): an add commits against the registry as it is when it
\* commits: the new list is the new entry followed by the current list, so
\* that an entry removed meanwhile does not come back and one added
\* meanwhile is not lost, and an add whose session was logged out meanwhile
\* writes nothing to localStorage.
C15_AddIsAtomic ==
    [][(ev'.op = "addBuild" /\ ev'.res = "added")
        => \E i \in 1..Len(adds) :
              /\ adds[i].stage = "cover" /\ adds' = Without(adds, i)
              /\ IF adds[i].alive
                 THEN /\ Len(builds') = Len(builds) + 1
                      /\ \A k \in 1..Len(builds) : builds'[k + 1] = builds[k]
                      /\ Stored' = Stringify(builds')
                 ELSE ls' = ls]_vars

\* C16 (as claimed): in every state selectedPath is empty or the path of an
\* entry of the registry.
C16_SelectionInRegistry ==
    path /= <<>> => \E i \in 1..Len(builds) : builds[i].path = path

\* C17: once a start of the launcher has finished, the list in memory is the
\* list localStorage held before the start, selectedPath is the selection
\* it held or, when it held none and the list has entries, the path of the
\* first entry, and localStorage holds that list and that selection: the
\* effects that run on the initial state have not left the list erased.
C17_RestartRestores ==
    ev.op = "open"
    => LET before == ev.stored
           list == IF before.builds /= None THEN before.builds[1] ELSE <<>>
       IN  /\ Stringify(builds) = list
           /\ path = IF before.buildPath /= None THEN before.buildPath[1]
                     ELSE IF Len(list) > 0 THEN list[1].path ELSE <<>>
           /\ ls.builds = Some(list)
           /\ ls.buildPath = IF path /= <<>> THEN Some(path) ELSE None
           /\ ls.user = before.user /\ ls.EOR = before.EOR

\* a restart after an add with a cover and a remove: everything is back
C17_Witness ==
    /\ ev.op = "open" /\ created = 1 /\ removes = 1
    /\ Len(builds) = Cap - 1
    /\ builds[1].coverDataUrl = Some(CoverUrl)
    /\ path = builds[1].path

\* C18 (as claimed): the command a launch issues carries selectedPath as the
\* click leaves it (the entry's path for Play on an entry), or the first
\* entry's path when that is empty, with the session's email and password
\* and the toggle.
C18_CommandCarriesSelection ==
    [][(ev'.op = "handleLaunch" /\ ev'.res = "issued")
        => LET c == cmds'[Len(cmds')]
           IN  /\ Len(cmds') = Len(cmds) + 1
               /\ c.path = IF path' /= <<>> THEN path' ELSE builds'[1].path
               /\ c.email = user'[1].email
               /\ c.password = user'[1].password
               /\ c.eor = EOR']_vars

\* C19 (as claimed): an error stays displayed until the timer armed when it
\* was surfaced expires; the timers expire in the order they were armed, so
\* while any timer is pending the one of the error surfaced last is, and
\* that error is on display.
C19_ErrorStaysUntilItsTimer == errTimers > 0 => error /= ""

\* C20 (as claimed, second half): while Onboard is mounted the state leaves
\* Launching only when a liveness query reports not-running or fails.
C20_OnlyAnswersEndLaunching ==
    [][(isLaunching /\ ~isLaunching' /\ page' = "onboard")
        => (ev'.op = "liveness" /\ ev'.res /= "running")]_vars

\* C20 (amended): with the timer firing and the host answering, a state of
\* Launching whose queries do not report running for ever is followed by
\* Idle with the loop cancelled; and while Onboard is mounted the state
\* leaves Launching only on a not-running or failed answer to a query of
\* the active loop or on the rejection of a launch command: neither a tick
\* nor an answer of running ends it.
C20_PollsUntilStopped ==
    /\ isLaunching ~> (~isLaunching /\ timers = <<>>)
    /\ [][(isLaunching /\ ~isLaunching' /\ page' = "onboard")
          => \/ ev'.op = "liveness" /\ ev'.res /= "running" /\ ~ev'.cancelled
             \/ ev'.op = "firstlaunch" /\ ev'.res = "rejected" /\ ev'.alive]_vars

\* the loop asked three times and ended on the third answer
C20_Witness ==
    /\ ev.op = "liveness" /\ ev.res = "stopped" /\ ~ev.cancelled
    /\ LogAnswers(cycleLog) = <<"running", "running", "stopped">>
    /\ ~isLaunching /\ timers = <<>>

\* C21: the queries awaiting an answer that are not cancelled are those of
\* the loop now active: there is none while Idle or once Onboard is
\* unmounted, and the step that begins a launch cycle leaves only the query
\* it issues uncancelled; the answer to a cancelled query, whatever it is,
\* leaves LaunchState and the active loop as they are, so that a late
\* not-running or failed answer of an earlier cycle does not end a later one.
C21_LateAnswersIgnored ==
    [][/\ (~isLaunching' \/ page' /= "onboard")
          => \A k \in 1..Len(queries') : queries'[k]
       /\ (~isLaunching /\ isLaunching')
          => /\ Len(queries') = Len(queries) + 1
             /\ ~queries'[Len(queries')]
             /\ \A k \in 1..Len(queries) : queries'[k]
       /\ (ev'.op = "liveness" /\ ev'.cancelled)
          => /\ UNCHANGED <<isLaunching, timers, cycleLog>>
             /\ Len(queries') = Len(queries) - 1
             /\ \A k \in 1..Len(queries') : ~queries'[k] => isLaunching']_vars

\* a later launch cycle is under way and the not-running answer to a query
\* of an earlier cycle has just arrived: the state is still Launching
C21_Witness ==
    /\ ev.op = "liveness" /\ ev.cancelled /\ ev.res \in {"stopped", "failed"}
    /\ page = "onboard" /\ isLaunching /\ Len(timers) = 1
    /\ \E k \in 1..Len(queries) : ~queries[k]

====
